---- MODULE Spec2Model ----
(***************************************************************************)
(* A model of arpy (src/arpy.py): the sequential ar archive reader         *)
(* (class Archive), its member views (class ArchiveFileData) and the       *)
(* cursor they share.  Bytes are one-character strings, byte strings are   *)
(* sequences of them.  An exception is a value of the field exc of an      *)
(* operation's outcome; "none" means the call returned.                    *)
(***************************************************************************)
EXTENDS Integers, Sequences, FiniteSets, TLC

(***************************************************************************)
(* Bounds of the model.                                                    *)
(***************************************************************************)
\* Largest member content length of a generated archive.
MaxSize == 2
\* A view's read_offset is followed down to -MaxNeg (read(n) with n < 0).
MaxNeg == 1
\* The longest header list an archive that never ends is read to.
MaxHeaders == 3

(***************************************************************************)
(* Program constants.                                                      *)
(***************************************************************************)
HEADER_BSD == 1
HEADER_GNU == 2
HEADER_GNU_TABLE == 3
HEADER_GNU_SYMBOLS == 4
HEADER_NORMAL == 5
GLOBAL_HEADER_LEN == 8
HEADER_LEN == 60
\* The chunk the emulated seek reads and discards at a time.
SEEK_CHUNK == 4096

NL == "\n"
\* b"!<arch>\n"
GLOBAL_MAGIC == <<"!", "<", "a", "r", "c", "h", ">", NL>>
\* The byte 0x60 (a grave accent), named since the character cannot be written
\* in a string here.
GRAVE == "0x60"
\* b"\x60\x0a"
HEADER_MAGIC == <<GRAVE, NL>>
\* The bytes bytes.strip() and int() treat as white space.
WHITESPACE == {" ", NL, "\t", "\r"}
\* header.name of a header whose name was never resolved (None in Python).
NoName == <<"*None*">>
\* header.name = "*GNU_TABLE*", a str and so never equal to a bytes name.
GnuTableName == <<"*GNU_TABLE*">>

Min(a, b) == IF a < b THEN a ELSE b

(***************************************************************************)
(* Byte strings: the bytes methods the code calls.                         *)
(***************************************************************************)
\* s[i:] for 0 <= i
Slice(s, i) == IF i >= Len(s) THEN <<>> ELSE SubSeq(s, i + 1, Len(s))

\* s[i:j] for 0 <= i <= j
Slice2(s, i, j) == IF i >= Min(j, Len(s)) THEN <<>> ELSE SubSeq(s, i + 1, Min(j, Len(s)))

\* Mutant of DropLast: the last byte is kept.
DropLast_none(s) == s


\* s[:-1]
DropLast(s) == IF Len(s) <= 1 THEN <<>> ELSE SubSeq(s, 1, Len(s) - 1)

startswith(s, p) == Len(s) >= Len(p) /\ SubSeq(s, 1, Len(p)) = p

RECURSIVE rstrip(_, _)
rstrip(s, chars) ==
    IF s # <<>> /\ s[Len(s)] \in chars THEN rstrip(SubSeq(s, 1, Len(s) - 1), chars) ELSE s

RECURSIVE lstrip(_, _)
lstrip(s, chars) ==
    IF s # <<>> /\ Head(s) \in chars THEN lstrip(Tail(s), chars) ELSE s

strip(s) == lstrip(rstrip(s, WHITESPACE), WHITESPACE)

\* The value of one digit character.
DigitVal(c) ==
    CASE c = "0" -> 0 [] c = "1" -> 1 [] c = "2" -> 2 [] c = "3" -> 3 [] c = "4" -> 4
      [] c = "5" -> 5 [] c = "6" -> 6 [] c = "7" -> 7 [] c = "8" -> 8 [] c = "9" -> 9

DigitsOf(base) == IF base = 8 THEN {"0", "1", "2", "3", "4", "5", "6", "7"}
                  ELSE {"0", "1", "2", "3", "4", "5", "6", "7", "8", "9"}

RECURSIVE DigitsValue(_, _, _)
DigitsValue(s, base, acc) ==
    IF s = <<>> THEN acc ELSE DigitsValue(Tail(s), base, acc * base + DigitVal(Head(s)))

\* int(s, base) on a byte string: white space around the text is dropped, one
\* sign is accepted, every other character must be a digit of the base and
\* there must be one.  [ok |-> FALSE] is ValueError.  (The digit
\* separators "_" and the "0o" prefix are not modelled; no input holds them.)
int(s, base) ==
    LET Value(negative, d) ==
            IF d = <<>> \/ \E i \in 1..Len(d) : d[i] \notin DigitsOf(base)
            THEN [ok |-> FALSE, val |-> 0]
            ELSE [ok |-> TRUE,
                  val |-> (IF negative THEN -1 ELSE 1) * DigitsValue(d, base, 0)]
        Signed(t) ==
            IF t # <<>> /\ Head(t) \in {"+", "-"} THEN Value(Head(t) = "-", Tail(t))
            ELSE Value(FALSE, t)
    IN  Signed(strip(s))

(***************************************************************************)
(* The state.  file and seekable describe the source and never change;     *)
(* filepos is the position of the source itself (the file object), the     *)
(* other variables are the fields of the Archive object and of its views.  *)
(***************************************************************************)
VARIABLES
    source,             \* what the source was written from: its members
    file,               \* the bytes of the source
    seekable,           \* Archive.seekable
    filepos,            \* the position of the file object
    position,           \* Archive.position
    next_header_offset, \* Archive.next_header_offset
    gnu_table,          \* Archive.gnu_table: [set |-> FALSE] is None
    headers,            \* Archive.headers
    archived_files,     \* Archive.archived_files: name -> index into views
    views,              \* every ArchiveFileData made so far, in order of creation
    last,               \* the last call made: its arguments and its outcome
    done,               \* read_next_header has returned None at least once
    global_header,      \* AIXBigArchive.global_header
    handle,             \* "none": no Archive object; "open"; "closed": file.closed
    pending             \* the reads that have positioned the cursor and not yet
                        \* read from it: view -> the size to read

vars == <<source, file, seekable, filepos, position, next_header_offset, gnu_table,
          headers, archived_files, views, last, done, global_header, handle,
          pending>>

\* The Archive object as one value, for the operators below.
Self == [filepos |-> filepos, position |-> position,
         next_header_offset |-> next_header_offset, gnu_table |-> gnu_table,
         headers |-> headers, archived_files |-> archived_files, views |-> views]

(***************************************************************************)
(* The cursor: Archive._read and Archive._seek over the file object.       *)
(***************************************************************************)
\* file.read(length) at position fp: up to length bytes, all the rest when
\* length is negative, nothing at or after the end.
file_read(fp, length) ==
    IF fp >= Len(file) \/ length = 0 THEN <<>>
    ELSE IF length < 0 THEN SubSeq(file, fp + 1, Len(file))
    ELSE SubSeq(file, fp + 1, Min(fp + length, Len(file)))

_read(self, length) ==
    LET Counted(data) ==
            [self |-> [self EXCEPT !.filepos = @ + Len(data),
                                   !.position = @ + Len(data)],
             data |-> data]
    IN  Counted(file_read(self.filepos, length))

\* The loop of the emulated seek: read and discard until the target or the end.
RECURSIVE SeekLoop(_, _)
SeekLoop(self, offset) ==
    IF self.position < offset
    THEN LET Chunk(r) == IF r.data = <<>> THEN r.self ELSE SeekLoop(r.self, offset)
         IN  Chunk(_read(self, Min(SEEK_CHUNK, offset - self.position)))
    ELSE self

\* Mutant of _seek: a stream is set back like a seekable source.
_seek_rewinding(self, offset) ==
    IF offset < 0
    THEN [self |-> self, exc |-> "ValueError"]
    ELSE IF seekable \/ offset < self.position
    THEN [self |-> [self EXCEPT !.filepos = offset, !.position = offset],
          exc |-> "none"]
    ELSE [self |-> SeekLoop(self, offset), exc |-> "none"]

\* Mutant of _seek: a target behind the cursor of a stream is not refused.
_seek_backward(self, offset) ==
    IF seekable
    THEN IF offset < 0
         THEN [self |-> self, exc |-> "ValueError"]
         ELSE [self |-> [self EXCEPT !.filepos = offset, !.position = offset],
               exc |-> "none"]
    ELSE [self |-> SeekLoop(self, offset), exc |-> "none"]

\* Mutant of _seek: the cursor stays where it is.
_seek_unmoved(self, offset) == [self |-> self, exc |-> "none"]

\* file.seek(offset) raises ValueError for a negative offset.
_seek(self, offset) ==
    IF seekable
    THEN IF offset < 0
         THEN [self |-> self, exc |-> "ValueError"]
         ELSE [self |-> [self EXCEPT !.filepos = offset, !.position = offset],
               exc |-> "none"]
    ELSE IF offset < self.position
         THEN [self |-> self, exc |-> "ArchiveAccessError"]
         ELSE [self |-> SeekLoop(self, offset), exc |-> "none"]

\* Mutant of _pad2: no rounding up.
_pad2_unaligned(num) == num

_pad2(num) == IF num % 2 = 0 THEN num ELSE num + 1

(***************************************************************************)
(* ArchiveFileHeader.__init__: the 60 bytes of a header, decoded.          *)
(* A field the code leaves unset (or sets to None) holds -1 or NoName.     *)
(***************************************************************************)
HeaderType(name) ==
    IF startswith(name, <<"#", "1", "/">>) THEN HEADER_BSD
    ELSE IF startswith(name, <<"/", "/">>) THEN HEADER_GNU_TABLE
    ELSE IF strip(name) = <<"/">> THEN HEADER_GNU_SYMBOLS
    ELSE IF startswith(name, <<"/">>) THEN HEADER_GNU
    ELSE HEADER_NORMAL

\* Mutant of DataTypes: every kind of header counts as a member with data.
DataTypes_all ==
    {HEADER_BSD, HEADER_NORMAL, HEADER_GNU, HEADER_GNU_TABLE, HEADER_GNU_SYMBOLS}

\* The types of the headers of members with data.
DataTypes == {HEADER_BSD, HEADER_NORMAL, HEADER_GNU}

\* name.rstrip(), then name.rstrip(b"/") if more than one byte is left.
StrippedName(name) ==
    LET Slashes(stripped) ==
            IF Len(stripped) > 1 THEN rstrip(stripped, {"/"}) ELSE stripped
    IN  Slashes(rstrip(name, WHITESPACE))

\* The outcome is [exc, h].  The fields are the seven of struct.unpack.
ArchiveFileHeader(header, offset) ==
    LET Fields(name, timestamp, uid, gid, mode, size, magic, type, name2) ==
            IF magic # HEADER_MAGIC
            THEN [exc |-> "ArchiveFormatError"]
            ELSE IF ~size.ok \/ (type \in DataTypes
                                 /\ ~(timestamp.ok /\ uid.ok /\ gid.ok /\ mode.ok))
            THEN [exc |-> "ArchiveFormatError"]
            ELSE [exc |-> "none",
                  h |-> [type |-> type, size |-> size.val,
                         timestamp |-> IF type \in DataTypes THEN timestamp.val ELSE -1,
                         uid |-> IF type \in DataTypes THEN uid.val ELSE -1,
                         gid |-> IF type \in DataTypes THEN gid.val ELSE -1,
                         mode |-> IF type \in DataTypes THEN mode.val ELSE -1,
                         offset |-> offset,
                         name |-> IF type = HEADER_NORMAL THEN name2 ELSE NoName,
                         proxy_name |-> IF type = HEADER_NORMAL THEN NoName ELSE name2,
                         file_offset |-> IF type = HEADER_NORMAL
                                         THEN offset + HEADER_LEN ELSE -1]]
    IN  Fields(Slice2(header, 0, 16), int(Slice2(header, 16, 28), 10),
               int(Slice2(header, 28, 34), 10), int(Slice2(header, 34, 40), 10),
               int(Slice2(header, 40, 48), 8), int(Slice2(header, 48, 58), 10),
               Slice2(header, 58, 60), HeaderType(Slice2(header, 0, 16)),
               StrippedName(Slice2(header, 0, 16)))

(***************************************************************************)
(* Archive.__read_gnu_table and Archive.__fix_name.                        *)
(***************************************************************************)
\* The index of the first newline of s, 0 when it has none.
RECURSIVE FindNL(_, _)
FindNL(s, i) ==
    IF i > Len(s) THEN 0 ELSE IF s[i] = NL THEN i ELSE FindNL(s, i + 1)

\* The loop over table_string.split(b"\n"): every piece, the last (possibly
\* empty) one included, is entered at the offset it starts at, less its last byte.
RECURSIVE GnuTableOf(_, _, _)
GnuTableOf(table_string, pos, acc) ==
    LET Entered(filename) ==
            [p \in (DOMAIN acc) \cup {pos} |->
                IF p = pos THEN DropLast(filename) ELSE acc[p]]
        Piece(k) ==
            IF k = 0 THEN Entered(table_string)
            ELSE GnuTableOf(Slice(table_string, k), pos + k,
                            Entered(SubSeq(table_string, 1, k - 1)))
    IN  Piece(FindNL(table_string, 1))

__read_gnu_table(self, size) ==
    LET Parsed(r) ==
            IF Len(r.data) # size
            THEN [self |-> r.self, exc |-> "ArchiveFormatError"]
            ELSE [self |-> [r.self EXCEPT !.gnu_table =
                                [set |-> TRUE, tab |-> GnuTableOf(r.data, 0, <<>>)]],
                  exc |-> "none"]
    IN  Parsed(_read(self, size))

\* Mutant of __get_bsd_filename_len: no inline name.
__get_bsd_filename_len_zero(name) == [ok |-> TRUE, val |-> 0]

__get_bsd_filename_len(name) == int(Slice(name, 3), 10)

\* The outcome holds the header with its name resolved and the number of
\* bytes of an inline name (the value returned).
__fix_name(self, header) ==
    LET plain == [self |-> self, exc |-> "none", h |-> header, add_len |-> 0]
    IN  CASE header.type = HEADER_NORMAL -> plain
          [] header.type = HEADER_BSD ->
                LET Named(filename_len, r) ==
                        [self |-> r.self, exc |-> "none",
                         h |-> [header EXCEPT !.size = @ - filename_len,
                                              !.name = r.data],
                         add_len |-> filename_len]
                    Sought(filename_len, s) ==
                        IF s.exc # "none" THEN [plain EXCEPT !.self = s.self, !.exc = s.exc]
                        ELSE Named(filename_len, _read(s.self, filename_len))
                    Length(filename_len) ==
                        IF ~filename_len.ok THEN [plain EXCEPT !.exc = "ValueError"]
                        ELSE Sought(filename_len.val,
                                    _seek(self, header.offset + HEADER_LEN))
                IN  Length(__get_bsd_filename_len(header.proxy_name))
          [] header.type = HEADER_GNU_TABLE ->
                [plain EXCEPT !.h = [header EXCEPT !.name = GnuTableName]]
          [] header.type = HEADER_GNU ->
                LET Looked(gnu_position) ==
                        IF ~gnu_position.ok THEN [plain EXCEPT !.exc = "ValueError"]
                        ELSE IF ~self.gnu_table.set THEN [plain EXCEPT !.exc = "TypeError"]
                        ELSE IF gnu_position.val \notin DOMAIN self.gnu_table.tab
                        THEN [plain EXCEPT !.exc = "ArchiveFormatError"]
                        ELSE [plain EXCEPT !.h = [header EXCEPT !.name =
                                                 self.gnu_table.tab[gnu_position.val]]]
                IN  Looked(int(Slice(header.proxy_name, 1), 10))
          [] header.type = HEADER_GNU_SYMBOLS -> plain

(***************************************************************************)
(* Archive._read_file_header, read_next_header and read_all_headers.       *)
(* An outcome is [self, exc, none, h]: the object afterwards, the          *)
(* exception raised ("none": the call returned), whether None was          *)
(* returned, and the header returned.                                      *)
(***************************************************************************)
NoHeader == [type |-> 0, size |-> 0, timestamp |-> -1, uid |-> -1, gid |-> -1,
             mode |-> -1, offset |-> -1, name |-> NoName, proxy_name |-> NoName,
             file_offset |-> -1]

\* Mutant of Raised: the header that could not be decoded is put in the list.
Raised_appending(self, exc) ==
    [self |-> [self EXCEPT !.headers = Append(@, NoHeader)], exc |-> exc,
     none |-> FALSE, h |-> NoHeader]

\* raise: the method ends with the exception, the object as it then is.
Raised(self, exc) == [self |-> self, exc |-> exc, none |-> FALSE, h |-> NoHeader]

\* Mutant of AtEnd: the end of the input moves the next header's offset on.
AtEnd_advancing(r) ==
    [self |-> [r.self EXCEPT !.next_header_offset = @ + HEADER_LEN],
     exc |-> "none", none |-> TRUE, h |-> NoHeader]

\* Mutant of AtEnd: the end of the input is reported as a format error.
AtEnd_raising(r) == Raised(r.self, "ArchiveFormatError")

\* if len(header) == 0: return None
AtEnd(r) == [self |-> r.self, exc |-> "none", none |-> TRUE, h |-> NoHeader]

\* Mutant of Expected: every header read counts as the one expected next.
Expected_always(self, offset) == TRUE

\* if offset == self.next_header_offset
Expected(self, offset) == offset = self.next_header_offset

\* The steps of the method, last first: each takes what the step before it
\* produced (s: the seek, r: the 60 bytes read, p: the decoded header, t: the
\* name table read, f: the name fixed).

_read_file_header(self, offset) ==
    LET Advanced(f, file_offset) ==
            [self |-> IF Expected(f.self, offset)
                      THEN [f.self EXCEPT !.next_header_offset =
                                              _pad2(file_offset + f.h.size)]
                      ELSE f.self,
             exc |-> "none", none |-> FALSE,
             h |-> [f.h EXCEPT !.file_offset = file_offset]]
        Fixed(f) ==
            IF f.exc # "none" THEN Raised(f.self, f.exc)
            ELSE Advanced(f, offset + HEADER_LEN + f.add_len)
        Tabled(t, p) ==
            IF t.exc # "none" THEN Raised(t.self, t.exc)
            ELSE Fixed(__fix_name(t.self, p.h))
        Decoded(r, p) ==
            IF p.exc # "none" THEN Raised(r.self, p.exc)
            ELSE Tabled(IF p.h.type = HEADER_GNU_TABLE
                        THEN __read_gnu_table(r.self, p.h.size)
                        ELSE [self |-> r.self, exc |-> "none"], p)
        Header(r) ==
            IF Len(r.data) = 0 THEN AtEnd(r)
            ELSE IF Len(r.data) < HEADER_LEN THEN Raised(r.self, "ArchiveFormatError")
            ELSE Decoded(r, ArchiveFileHeader(r.data, offset))
        Sought(s) ==
            IF s.exc # "none" THEN Raised(s.self, s.exc)
            ELSE Header(_read(s.self, HEADER_LEN))
    IN  Sought(_seek(self, offset))

\* Mutant of Register: a name already in the index keeps its first view.
Register_first(self, name) ==
    [self EXCEPT
        !.views = Append(@, [header |-> Len(self.headers), last_offset |-> 0]),
        !.archived_files = [k \in (DOMAIN @) \cup {name} |->
                               IF k \in DOMAIN @ THEN @[k] ELSE Len(self.views) + 1]]

\* archived_files[name] = ArchiveFileData(self, header): a new view, whose
\* header is the one just appended to headers.
Register(self, name) ==
    [self EXCEPT
        !.views = Append(@, [header |-> Len(self.headers), last_offset |-> 0]),
        !.archived_files = [k \in (DOMAIN @) \cup {name} |->
                               IF k = name THEN Len(self.views) + 1 ELSE @[k]]]

read_next_header(self) ==
    LET Appended(r, s1) ==
            [r EXCEPT !.self = IF r.h.type \in DataTypes THEN Register(s1, r.h.name)
                               ELSE s1]
        Read(r) ==
            IF r.exc # "none" \/ r.none THEN r
            ELSE Appended(r, [r.self EXCEPT !.headers = Append(@, r.h)])
    IN  Read(_read_file_header(self, self.next_header_offset))

RECURSIVE read_all_headers(_)
read_all_headers(self) ==
    LET Loop(r) == IF r.exc # "none" \/ r.none THEN r ELSE read_all_headers(r.self)
    IN  Loop(read_next_header(self))

\* Archive.__init__ on the file object at its start: self holds the
\* position of the file object; the outcome is [self, exc].
Archive__init__(self) ==
    LET Checked(r) ==
            IF r.data # GLOBAL_MAGIC
            THEN [self |-> r.self, exc |-> "ArchiveFormatError"]
            ELSE [self |-> [r.self EXCEPT
                               !.next_header_offset = GLOBAL_HEADER_LEN,
                               !.gnu_table = [set |-> FALSE, tab |-> <<>>],
                               !.archived_files = <<>>],
                  exc |-> "none"]
    IN  Checked(_read([self EXCEPT !.headers = <<>>, !.position = 0],
                      GLOBAL_HEADER_LEN))

\* _seek(offset) and the _read after it once close() has closed the file:
\* file.seek and file.read raise ValueError (I/O operation on closed file);
\* only the test of a stream's position comes before them.  Nothing of the
\* object changes.
closed_cursor(self, offset) ==
    IF ~seekable /\ offset < self.position
    THEN [self |-> self, exc |-> "ArchiveAccessError"]
    ELSE [self |-> self, exc |-> "ValueError"]

\* Mutant of __next__: the first header read ends the call, whatever its type.
__next___unfiltered(self) ==
    LET Loop(r) ==
            IF r.exc # "none" THEN r @@ [view |-> 0]
            ELSE IF r.none THEN [r EXCEPT !.exc = "StopIteration"] @@ [view |-> 0]
            ELSE r @@ [view |-> IF r.h.type \in DataTypes
                                THEN r.self.archived_files[r.h.name] ELSE 0]
    IN  Loop(read_next_header(self))

\* __next__: the outcome is that of the last read_next_header, with the view
\* returned (views[view]) or StopIteration raised.
RECURSIVE __next__(_)
__next__(self) ==
    LET Loop(r) ==
            IF r.exc # "none" THEN r @@ [view |-> 0]
            ELSE IF r.none THEN [r EXCEPT !.exc = "StopIteration"] @@ [view |-> 0]
            ELSE IF r.h.type \in DataTypes
            THEN r @@ [view |-> r.self.archived_files[r.h.name]]
            ELSE __next__(r.self)
    IN  Loop(read_next_header(self))

(***************************************************************************)
(* AIXBigArchive, AIXBigGlobalHeader and AIXBigFileHeader.  These classes  *)
(* compare and search what they read with str literals, as their tests     *)
(* (written for cStringIO) do: they are modelled as they run where str is  *)
(* the type of the bytes read.                                             *)
(***************************************************************************)
LENGTH == 128
AIAMAGBIG == <<"<", "b", "i", "g", "a", "f", ">", NL>>
AIAFMAG == <<GRAVE, NL>>
MINIMUM_LENGTH == 112

\* An Archive has no global_header.
NoGlobalHeader == [members |-> -1, global_symbol |-> -1, global_symbol_64 |-> -1,
                   first_member |-> -1, last_member |-> -1, first_free_member |-> -1]

endswith(s, p) == Len(s) >= Len(p) /\ SubSeq(s, Len(s) - Len(p) + 1, Len(s)) = p

\* AIXBigGlobalHeader.__init__: the outcome is [exc, g].  The calls of int
\* are not guarded: what they raise is ValueError.
AIXBigGlobalHeader(content) ==
    LET Fields(members, global_symbol, global_symbol_64, first_member, last_member,
               first_free_member) ==
            IF ~(members.ok /\ global_symbol.ok /\ global_symbol_64.ok
                   /\ first_member.ok /\ last_member.ok /\ first_free_member.ok)
            THEN [exc |-> "ValueError", g |-> NoGlobalHeader]
            ELSE [exc |-> "none",
                  g |-> [members |-> members.val, global_symbol |-> global_symbol.val,
                         global_symbol_64 |-> global_symbol_64.val,
                         first_member |-> first_member.val,
                         last_member |-> last_member.val,
                         first_free_member |-> first_free_member.val]]
    IN  IF Len(content) < LENGTH \/ Slice2(content, 0, 8) # AIAMAGBIG
        THEN [exc |-> "ArchiveFormatError", g |-> NoGlobalHeader]
        ELSE Fields(int(Slice2(content, 8, 28), 10), int(Slice2(content, 28, 48), 10),
                    int(Slice2(content, 48, 68), 10), int(Slice2(content, 68, 88), 10),
                    int(Slice2(content, 88, 108), 10), int(Slice2(content, 108, 128), 10))

\* Mutant of remaining_header_length: no rounding up to an even length.
remaining_header_length_unpadded(filename_length) == filename_length + Len(AIAFMAG)

remaining_header_length(filename_length) == _pad2(filename_length + Len(AIAFMAG))

\* AIXBigFileHeader.__init__: the outcome is [exc, h].  file_offset is the
\* property of that name: _header_offset + MINIMUM_LENGTH +
\* remaining_header_length.
AIXBigFileHeader(content, offset) ==
    LET Fields(size, next_member, previous_member, timestamp, uid, gid, mode,
               filename_length) ==
            IF ~(size.ok /\ next_member.ok /\ previous_member.ok /\ timestamp.ok
                   /\ uid.ok /\ gid.ok /\ mode.ok /\ filename_length.ok)
            THEN [exc |-> "ValueError"]
            ELSE [exc |-> "none",
                  h |-> [type |-> HEADER_NORMAL, size |-> size.val,
                         next_member |-> next_member.val,
                         previous_member |-> previous_member.val,
                         timestamp |-> timestamp.val, uid |-> uid.val,
                         gid |-> gid.val, mode |-> mode.val,
                         filename_length |-> filename_length.val,
                         _header_offset |-> offset, name |-> NoName,
                         file_offset |-> offset + MINIMUM_LENGTH
                              + remaining_header_length(filename_length.val)]]
    IN  IF Len(content) < MINIMUM_LENGTH THEN [exc |-> "ArchiveFormatError"]
        ELSE Fields(int(Slice2(content, 0, 20), 10), int(Slice2(content, 20, 40), 10),
                    int(Slice2(content, 40, 60), 10), int(Slice2(content, 60, 72), 10),
                    int(Slice2(content, 72, 84), 10), int(Slice2(content, 84, 96), 10),
                    int(Slice2(content, 96, 108), 8), int(Slice2(content, 108, 112), 10))

\* updateRemainingHeader: the outcome is [exc, h].
updateRemainingHeader(h, content) ==
    IF Len(content) < remaining_header_length(h.filename_length)
           \/ ~endswith(content, AIAFMAG)
    THEN [exc |-> "ArchiveFormatError"]
    ELSE [exc |-> "none", h |-> [h EXCEPT !.name = Slice2(content, 0, h.filename_length)]]

\* Mutant of NextMember: the next member is the one that follows the data.
NextMember_adjacent(offset, file_header) == file_header.file_offset + file_header.size

\* The next header pointer after the header at offset, which was the one
\* expected: 0 after the last member, else the header's next_member.
NextMember(offset, file_header) ==
    IF offset = global_header.last_member THEN 0 ELSE file_header.next_member

\* AIXBigArchive._read_file_header
AIXBigArchive_read_file_header(self, offset) ==
    LET NoMember(self1) == [self |-> self1, exc |-> "none", none |-> TRUE, h |-> NoHeader]
        Linked(self1, h) ==
            [self |-> IF Expected(self1, offset)
                      THEN [self1 EXCEPT !.next_header_offset = NextMember(offset, h)]
                      ELSE self1,
             exc |-> "none", none |-> FALSE, h |-> h]
        Updated(c, u) ==
            IF u.exc # "none" THEN Raised(c.self, u.exc) ELSE Linked(c.self, u.h)
        Rest(c, h) == Updated(c, updateRemainingHeader(h, c.data))
        Parsed(r, p) ==
            IF p.exc # "none" THEN Raised(r.self, p.exc)
            ELSE Rest(_read(r.self, remaining_header_length(p.h.filename_length)), p.h)
        Header(r) ==
            IF Len(r.data) = 0 THEN NoMember(r.self)
            ELSE Parsed(r, AIXBigFileHeader(r.data, offset))
        Sought(s) ==
            IF s.exc # "none" THEN Raised(s.self, s.exc)
            ELSE Header(_read(s.self, MINIMUM_LENGTH))
    IN  IF offset = 0 THEN NoMember(self) ELSE Sought(_seek(self, offset))

\* read_next_header and read_all_headers as AIXBigArchive inherits them.
AIXBigArchive_read_next_header(self) ==
    LET Appended(r, s1) ==
            [r EXCEPT !.self = IF r.h.type \in DataTypes THEN Register(s1, r.h.name)
                               ELSE s1]
        Read(r) ==
            IF r.exc # "none" \/ r.none THEN r
            ELSE Appended(r, [r.self EXCEPT !.headers = Append(@, r.h)])
    IN  Read(AIXBigArchive_read_file_header(self, self.next_header_offset))

RECURSIVE AIXBigArchive_read_all_headers(_)
AIXBigArchive_read_all_headers(self) ==
    LET Loop(r) ==
            IF r.exc # "none" \/ r.none THEN r
            ELSE AIXBigArchive_read_all_headers(r.self)
    IN  Loop(AIXBigArchive_read_next_header(self))

(***************************************************************************)
(* ArchiveFileData: read, tell and seek of the view views[v].              *)
(***************************************************************************)
HeaderOf(self, v) == self.headers[self.views[v].header]

\* Mutant of ClampSize: the size asked for is not cut to what is left.
ClampSize_unclamped(header, last_offset, size) == size

\* if self.header.size < self.last_offset + size: size = ...
ClampSize(header, last_offset, size) ==
    IF header.size < last_offset + size THEN header.size - last_offset ELSE size

\* Mutant of ShortRead: fewer bytes than asked for are taken as they come.
ShortRead_never(data, size) == FALSE

\* if len(data) < size
ShortRead(data, size) == Len(data) < size

\* The first half of read: the size is set and clamped and the cursor is
\* positioned.  given is FALSE for a call without argument (size = None).
\* The outcome is [self, exc, size].
read_position(self, v, given, n) ==
    LET Sought(s, size) == [self |-> s.self, exc |-> s.exc, size |-> size]
        Clamped(header, last_offset, size) ==
            Sought(_seek(self, header.file_offset + last_offset),
                   ClampSize(header, last_offset, size))
        Sized(header) ==
            Clamped(header, self.views[v].last_offset, IF given THEN n ELSE header.size)
    IN  Sized(HeaderOf(self, v))

\* Mutant of read_data: the cursor is positioned again before the bytes are
\* read.
read_data_repositioned(self, v, size) ==
    LET Got(r) ==
            [self |-> [r.self EXCEPT !.views[v].last_offset = @ + size],
             exc |-> "none", data |-> r.data]
        Again(s) == Got(_read(s.self, size))
    IN  Again(_seek_rewinding(self, HeaderOf(self, v).file_offset
                                      + self.views[v].last_offset))

\* The second half of read: size bytes are read from the cursor and the
\* view's offset moves on.  The outcome is [self, exc, data].
read_data(self, v, size) ==
    LET Got(r) ==
            IF ShortRead(r.data, size)
            THEN [self |-> r.self, exc |-> "ArchiveAccessError", data |-> <<>>]
            ELSE [self |-> [r.self EXCEPT !.views[v].last_offset = @ + size],
                  exc |-> "none", data |-> r.data]
    IN  Got(_read(self, size))

\* read(size): the two halves, one after the other.
read(self, v, given, n) ==
    LET Positioned(p) ==
            IF p.exc # "none" THEN [self |-> p.self, exc |-> p.exc, data |-> <<>>]
            ELSE read_data(p.self, v, p.size)
    IN  Positioned(read_position(self, v, given, n))

tell(self, v) == self.views[v].last_offset

\* Mutant of SeekTarget: every offset is taken as absolute.
SeekTarget_absolute(offset, whence, last_offset, size) == offset

\* The offset a valid whence resolves to.
SeekTarget(offset, whence, last_offset, size) ==
    CASE whence = 0 -> offset
      [] whence = 1 -> offset + last_offset
      [] whence = 2 -> offset + size

\* Mutant of BadPosition: a target past the end of the member is accepted.
BadPosition_negative(target, size) == target < 0

\* if offset < 0 or offset > self.header.size: raise
BadPosition(target, size) == target < 0 \/ target > size

\* seek(offset, whence).  The outcome is [self, exc, ret]; the method has no
\* return statement, so what it returns is None: ret = [none |-> TRUE].
seek(self, v, offset, whence) ==
    LET None == [none |-> TRUE, val |-> 0]
        Moved(target, size) ==
            IF BadPosition(target, size)
            THEN [self |-> self, exc |-> "ArchiveAccessError", ret |-> None]
            ELSE [self |-> [self EXCEPT !.views[v].last_offset = target],
                  exc |-> "none", ret |-> None]
    IN  IF whence \notin {0, 1, 2}
        THEN [self |-> self, exc |-> "ArchiveAccessError", ret |-> None]
        ELSE Moved(SeekTarget(offset, whence, self.views[v].last_offset,
                              HeaderOf(self, v).size),
                   HeaderOf(self, v).size)

(***************************************************************************)
(* The sources the model runs on: archives of normal members, written as   *)
(* the tests write them (a global header, then per member a 60-byte        *)
(* header, the content, and a newline of padding after an odd length).     *)
(***************************************************************************)
ljust(s, width) == s \o [i \in 1..(width - Len(s)) |-> " "]

DigitChar(d) == <<"0", "1", "2", "3", "4", "5", "6", "7", "8", "9">>[d + 1]

\* str(n) for n >= 0
RECURSIVE str(_)
str(n) == IF n < 10 THEN <<DigitChar(n)>> ELSE str(n \div 10) \o <<DigitChar(n % 10)>>

MemberHeader(name, size) ==
    ljust(name \o <<"/">>, 16) \o ljust(<<"1">>, 12) \o ljust(<<"0">>, 6)
        \o ljust(<<"0">>, 6) \o ljust(<<"6", "4", "4">>, 8) \o ljust(str(size), 10)
        \o HEADER_MAGIC

MemberBytes(m) ==
    MemberHeader(m.name, Len(m.data)) \o m.data
        \o (IF Len(m.data) % 2 = 1 THEN <<NL>> ELSE <<>>)

RECURSIVE Concat(_)
Concat(ss) == IF ss = <<>> THEN <<>> ELSE Head(ss) \o Concat(Tail(ss))

ArchiveBytes(ms) == GLOBAL_MAGIC \o Concat([i \in 1..Len(ms) |-> MemberBytes(ms[i])])

\* The name of the i-th member: b"f1", b"f2", ...
MemberName(i) == <<"f">> \o str(i)

\* The content of the i-th member: size bytes, different in every member.
ContentByte(i, j) ==
    <<"a", "b", "c", "d", "e", "g", "h", "k", "m", "p", "q", "r">>[(((i - 1) * 4 + j - 1) % 12) + 1]

Content(i, size) == [j \in 1..size |-> ContentByte(i, j)]

\* n members; the first holds first bytes, each later one a byte more (from 0
\* again after MaxSize); with dup they all carry the first one's name.
Members(n, first, dup) ==
    [i \in 1..n |-> [name |-> MemberName(IF dup THEN 1 ELSE i),
                     data |-> Content(i, (first + i - 1) % (MaxSize + 1))]]

\* How many members a generated archive holds.
MemberCounts == {0, 1, 2}

\* The sources: archives of members with names of their own, archives of
\* members that share one name, and the former less their last byte.
Sources ==
    { [members |-> Members(n, first, kind = "dup"),
       cut |-> IF kind = "cut" THEN 1 ELSE 0] :
        n \in MemberCounts, first \in 0..MaxSize, kind \in {"plain", "dup", "cut"} }

SourceBytes(src) ==
    LET Cut(b) ==
            IF src.cut = 0 \/ src.members = <<>> THEN b
            ELSE SubSeq(b, 1, Len(b) - src.cut)
    IN  Cut(ArchiveBytes(src.members))

(***************************************************************************)
(* Archives that hold the other kinds of header (GNU name table, GNU       *)
(* extended name, BSD extended name, symbol table) and damaged ones.  An   *)
(* entry is what one member was written from: the texts of the header's    *)
(* fields and the bytes that follow the header (body).                     *)
(***************************************************************************)
EntryHeader(e) ==
    ljust(e.name, 16) \o ljust(e.timestamp, 12) \o ljust(e.uid, 6)
        \o ljust(e.gid, 6) \o ljust(e.mode, 8) \o ljust(e.size, 10)
        \o (IF "magic" \in DOMAIN e THEN e.magic ELSE HEADER_MAGIC)

EntryBytes(e) ==
    EntryHeader(e) \o e.body \o (IF Len(e.body) % 2 = 1 THEN <<NL>> ELSE <<>>)

\* A member with a short name and size bytes of content.
Plain(i, size) ==
    [kind |-> "normal", name |-> MemberName(i) \o <<"/">>, timestamp |-> <<"1">>,
     uid |-> <<"0">>, gid |-> <<"0">>, mode |-> <<"6", "4", "4">>,
     size |-> str(size), body |-> Content(i, size)]

\* A member as archivers on Windows write it: uid and gid are blank.
Windows(i, size) == [Plain(i, size) EXCEPT !.kind = "windows", !.uid = <<>>, !.gid = <<>>]

\* A member whose size field is a negative number.
Negative(i) == [Plain(i, 0) EXCEPT !.kind = "negative", !.size = <<"-", "1">>]

\* The symbol table of GNU ar: the name is "/".
Symbols(size) ==
    [Plain(9, size) EXCEPT !.kind = "symbols", !.name = <<"/">>]

\* The content of a name table: every name, then "/" and a newline.
RECURSIVE TableContent(_)
TableContent(names) ==
    IF names = <<>> THEN <<>>
    ELSE Head(names) \o <<"/", NL>> \o TableContent(Tail(names))

\* The name table of GNU ar: the name is "//", the other fields are blank.
Table(names) ==
    [kind |-> "table", name |-> <<"/", "/">>, timestamp |-> <<>>, uid |-> <<>>,
     gid |-> <<>>, mode |-> <<>>, size |-> str(Len(TableContent(names))),
     body |-> TableContent(names), names |-> names]

\* A member whose name is the one at offset k of the name table.
GnuRef(k, i, size) ==
    [Plain(i, size) EXCEPT !.kind = "gnu", !.name = <<"/">> \o str(k)] @@ [k |-> k]

\* A member with a BSD extended name: the name follows the header and counts
\* in the size field, which holds declared.
Bsd(longname, declared, i) ==
    [Plain(i, 0) EXCEPT !.kind = "bsd",
                        !.name = <<"#", "1", "/">> \o str(Len(longname)),
                        !.size = str(declared),
                        !.body = longname \o Content(i, declared - Len(longname))]
        @@ [longname |-> longname, declared |-> declared]

\* The names of the name table, and the offsets headers refer to: the start
\* of each name, the middle of one, the end of the table and past it.
TableNames == << <<"a", "b">>, <<"c", "/">> >>
GnuOffsets == {0, 1, 4, 8, 9}

\* How many bytes a damaged archive lacks at its end: with 60, 59, 30 or 1
\* the last header, which has no content, is missing or short.
Cuts == {0, 1, 30, 59, 60}

FormatSources ==
    { [entries |-> <<Table(TableNames), GnuRef(k, 1, 1), Plain(2, 1)>>, cut |-> 0] :
          k \in GnuOffsets }
    \cup { [entries |-> <<Plain(1, 1), Plain(2, 0)>>, cut |-> c] : c \in Cuts }
    \cup { [entries |-> es, cut |-> 0] : es \in
            { <<GnuRef(0, 1, 1)>>,
              <<Table(<<>>), GnuRef(0, 1, 1)>>,
              <<Symbols(1), Table(TableNames), GnuRef(4, 1, 0), GnuRef(0, 2, 2)>>,
              <<Symbols(2), Plain(1, 0)>>,
              <<Bsd(<<"x", "y">>, 3, 1), Plain(2, 1)>>,
              <<Bsd(<<"x">>, 3, 1), Bsd(<<"x", "y">>, 2, 2)>>,
              <<Bsd(<<"x", "y">>, 1, 1), Plain(2, 1)>>,
              <<Negative(1), Plain(2, 1)>>,
              <<Windows(1, 1)>>,
              <<Plain(1, 2), Windows(2, 1)>> } }

FormatBytes(src) ==
    LET Cut(b) == SubSeq(b, 1, Len(b) - src.cut)
    IN  Cut(GLOBAL_MAGIC
              \o Concat([i \in 1..Len(src.entries) |-> EntryBytes(src.entries[i])]))

(***************************************************************************)
(* Damaged archives: a field that is no number, a wrong header magic, a    *)
(* name table or a member shorter than its size field says, a second name  *)
(* table, a missing last padding byte.                                     *)
(***************************************************************************)
NumericFields == {"timestamp", "uid", "gid", "mode", "size"}

\* A member one of whose numeric fields holds a letter.
BadField(i, field) ==
    [[f \in DOMAIN Plain(i, 1) |->
        IF f = field THEN <<"x">> ELSE Plain(i, 1)[f]] EXCEPT !.kind = "badnum"]

\* A BSD extended name whose length is no number.
BsdBad(i) == [Plain(i, 1) EXCEPT !.kind = "badnum", !.name = <<"#", "1", "/", "x">>]

\* A GNU extended name whose offset is no number.
GnuBad(i) == [Plain(i, 1) EXCEPT !.kind = "badnum", !.name = <<"/", "x">>]

\* A member whose header does not end with the magic.
BadMagic(i) == [Plain(i, 1) EXCEPT !.kind = "badmagic"] @@ [magic |-> <<"q", "q">>]

\* A name table whose size field says more than the archive holds.
ShortTable(names) ==
    [Table(names) EXCEPT !.kind = "shorttable",
                         !.size = str(Len(TableContent(names)) + 4)]

\* A member whose size field says more than the archive holds.
Oversized(i, size) ==
    [Plain(i, size) EXCEPT !.kind = "oversized", !.size = str(size + 3)]

DamagedCuts == {0, 1, 2, 3}

DamagedSources ==
    { [entries |-> <<Plain(2, 1), BadField(1, f)>>, cut |-> 0] : f \in NumericFields }
    \cup { [entries |-> <<Plain(1, MaxSize)>>, cut |-> c] : c \in DamagedCuts }
    \cup { [entries |-> <<Plain(1, 1), Plain(2, 1)>>, cut |-> c] : c \in DamagedCuts }
    \cup { [entries |-> es, cut |-> 0] : es \in
            { <<Plain(2, 1), BsdBad(1)>>,
              <<Table(TableNames), GnuRef(0, 2, 1), GnuBad(1)>>,
              <<Plain(2, 1), BadMagic(1)>>,
              <<Plain(2, 1), ShortTable(TableNames)>>,
              <<ShortTable(<<>>)>>,
              <<Table(<<>>), GnuRef(9, 1, 0)>>,
              <<Table(TableNames), GnuRef(0, 2, 1), GnuRef(1, 1, 1)>>,
              <<Plain(2, 1), Oversized(1, 1)>>,
              <<Table(TableNames), GnuRef(0, 1, 1), Table(<< <<"d">> >>),
                GnuRef(0, 2, 1)>> } }

(***************************************************************************)
(* Archives in the AIX big format, written as the tests write them: the    *)
(* global header, a gap, then the members, each a fixed header of 112      *)
(* bytes, the name, a null byte after a name of odd length, the trailer    *)
(* and the content.                                                        *)
(***************************************************************************)
NUL == "0x00"

AIXGlobalHeaderContent(first_member, last_member) ==
    AIAMAGBIG \o ljust(str(91268), 20) \o ljust(str(91458), 20)
        \o ljust(str(93664), 20) \o ljust(str(first_member), 20)
        \o ljust(str(last_member), 20) \o ljust(str(234), 20)

AIXFileEntry(name, content, next_member) ==
    ljust(str(Len(content)), 20) \o ljust(str(next_member), 20)
        \o ljust(str(123), 20) \o ljust(str(1087823288), 12) \o ljust(str(300), 12)
        \o ljust(str(301), 12) \o ljust(str(640), 12) \o ljust(str(Len(name)), 4)
        \o name \o (IF Len(name) % 2 = 1 THEN <<NUL>> ELSE <<>>) \o AIAFMAG
        \o content

\* An archive of one or two members, A before B in the file.  In link order
\* "forward" A is the first member and B the last, in "backward" B is the
\* first and A the last; the last member's next_member is the first member,
\* not 0.  The outcome holds the members in link order and the bytes.
AIXArchive(nameA, sizeA, gap, order, count) ==
    LET offA == LENGTH + gap
        A == [name |-> nameA, data |-> Content(1, sizeA), offset |-> offA]
        offB == offA + Len(AIXFileEntry(nameA, A.data, 0))
        B == [name |-> <<"z">>, data |-> Content(2, 1), offset |-> offB]
        Gap == [j \in 1..gap |-> "X"]
    IN  IF count = 1
        THEN [linked |-> <<A>>,
              bytes |-> AIXGlobalHeaderContent(offA, offA) \o Gap
                          \o AIXFileEntry(A.name, A.data, offA)]
        ELSE IF order = "forward"
        THEN [linked |-> <<A, B>>,
              bytes |-> AIXGlobalHeaderContent(offA, offB) \o Gap
                          \o AIXFileEntry(A.name, A.data, offB)
                          \o AIXFileEntry(B.name, B.data, offA)]
        ELSE [linked |-> <<B, A>>,
              bytes |-> AIXGlobalHeaderContent(offB, offA) \o Gap
                          \o AIXFileEntry(A.name, A.data, offB)
                          \o AIXFileEntry(B.name, B.data, offA)]

AIXSources ==
    { AIXArchive(nameA, sizeA, gap, order, count) :
        nameA \in { <<"p">>, <<"p", "q">> }, sizeA \in {1, MaxSize},
        gap \in {0, 5}, order \in {"forward", "backward"}, count \in {1, 2} }

(***************************************************************************)
(* The state machine.  Init is the state Archive.__init__ leaves on a      *)
(* source that starts with the global header; each action is one call of   *)
(* a public method, run to its return or to the exception it raises.       *)
(***************************************************************************)
\* last: the method called (op), the view it was called on, its arguments
\* (given: read had an argument; arg: the size or the offset; whence), the
\* view's read_offset before the call (old; for next, the number of headers
\* before the call), the exception raised (exc), and
\* what was returned: None (none), an integer (val), bytes (data), a header
\* (h); after_done: the end of the headers had been reported before the call.
NoCall == [op |-> "init", view |-> 0, given |-> FALSE, arg |-> 0, whence |-> 0,
           old |-> 0, exc |-> "none", none |-> FALSE, val |-> 0, data |-> <<>>,
           h |-> NoHeader, after_done |-> FALSE]

Init ==
    \E src \in Sources, sk \in BOOLEAN :
        /\ source = src
        /\ file = SourceBytes(src)
        /\ seekable = sk
        /\ filepos = GLOBAL_HEADER_LEN
        /\ position = GLOBAL_HEADER_LEN
        /\ next_header_offset = GLOBAL_HEADER_LEN
        /\ gnu_table = [set |-> FALSE, tab |-> <<>>]
        /\ headers = <<>>
        /\ archived_files = <<>>
        /\ views = <<>>
        /\ last = NoCall
        /\ done = FALSE
        /\ global_header = NoGlobalHeader
        /\ handle = "open"
        /\ pending = <<>>

\* The fields of the Archive object become those of self.
Fields(self) ==
    /\ filepos' = self.filepos
    /\ position' = self.position
    /\ next_header_offset' = self.next_header_offset
    /\ gnu_table' = self.gnu_table
    /\ headers' = self.headers
    /\ archived_files' = self.archived_files
    /\ views' = self.views

\* The Archive object becomes self, in a call that runs from its start to its
\* end on an open archive.
Becomes(self) ==
    /\ Fields(self)
    /\ UNCHANGED <<source, file, seekable, global_header, handle, pending>>

ReadNextHeader ==
    \E r \in {read_next_header(Self)} :
        /\ Becomes(r.self)
        /\ last' = [NoCall EXCEPT !.op = "read_next_header", !.exc = r.exc,
                                  !.none = r.none, !.h = r.h,
                                  !.after_done = done]
        /\ done' = (done \/ (r.exc = "none" /\ r.none))

ReadAllHeaders ==
    \E r \in {read_all_headers(Self)} :
        /\ Becomes(r.self)
        /\ last' = [NoCall EXCEPT !.op = "read_all_headers", !.exc = r.exc,
                                  !.none = (r.exc = "none"),
                                  !.after_done = done]
        /\ done' = (done \/ r.exc = "none")

\* The sizes a view is read with, and None (no argument).
ReadSizes == (0 - MaxNeg)..MaxSize

ViewRead ==
    \E v \in 1..Len(views), given \in BOOLEAN, n \in ReadSizes :
        \E r \in {read(Self, v, given, n)} :
            /\ given \/ n = 0
            /\ tell(r.self, v) >= 0 - MaxNeg
            /\ Becomes(r.self)
            /\ last' = [NoCall EXCEPT !.op = "read", !.view = v, !.given = given,
                                      !.arg = n, !.old = tell(Self, v),
                                      !.exc = r.exc, !.data = r.data,
                                      !.after_done = done]
            /\ UNCHANGED done

\* The offsets and the modes a view is sought with; 3 is no mode.
SeekOffsets == {-1, 0, 1}
Whences == {0, 1, 2, 3}

ViewSeek ==
    \E v \in 1..Len(views), offset \in SeekOffsets, whence \in Whences :
        \E r \in {seek(Self, v, offset, whence)} :
            /\ Becomes(r.self)
            /\ last' = [NoCall EXCEPT !.op = "seek", !.view = v, !.arg = offset,
                                      !.whence = whence, !.old = tell(Self, v),
                                      !.exc = r.exc,
                                      !.none = (r.exc = "none" /\ r.ret.none),
                                      !.val = r.ret.val, !.after_done = done]
            /\ UNCHANGED done

Next == ReadNextHeader \/ ReadAllHeaders \/ ViewRead \/ ViewSeek

Spec == Init /\ [][Next]_vars

(***************************************************************************)
(* The same reader on the archives of FormatSources, with iteration.       *)
(***************************************************************************)
InitFormats ==
    \E src \in FormatSources, sk \in BOOLEAN :
        /\ source = src
        /\ file = FormatBytes(src)
        /\ seekable = sk
        /\ filepos = GLOBAL_HEADER_LEN
        /\ position = GLOBAL_HEADER_LEN
        /\ next_header_offset = GLOBAL_HEADER_LEN
        /\ gnu_table = [set |-> FALSE, tab |-> <<>>]
        /\ headers = <<>>
        /\ archived_files = <<>>
        /\ views = <<>>
        /\ last = NoCall
        /\ done = FALSE
        /\ global_header = NoGlobalHeader
        /\ handle = "open"
        /\ pending = <<>>

\* next(ar): the view returned is last.view.
Iterate ==
    \E r \in {__next__(Self)} :
        /\ Becomes(r.self)
        /\ last' = [NoCall EXCEPT !.op = "next", !.exc = r.exc, !.view = r.view,
                                  !.h = r.h, !.old = Len(headers),
                                  !.after_done = done]
        /\ done' = (done \/ r.exc = "StopIteration")

\* Seeking in a view is left to Spec: here the views are read only.
NextFormats == ReadNextHeader \/ ReadAllHeaders \/ Iterate \/ ViewRead

SpecFormats == InitFormats /\ [][NextFormats]_vars

(***************************************************************************)
(* The same reader on the damaged archives.                                *)
(***************************************************************************)
InitDamaged ==
    \E src \in DamagedSources, sk \in BOOLEAN :
        /\ source = src
        /\ file = FormatBytes(src)
        /\ seekable = sk
        /\ filepos = GLOBAL_HEADER_LEN
        /\ position = GLOBAL_HEADER_LEN
        /\ next_header_offset = GLOBAL_HEADER_LEN
        /\ gnu_table = [set |-> FALSE, tab |-> <<>>]
        /\ headers = <<>>
        /\ archived_files = <<>>
        /\ views = <<>>
        /\ last = NoCall
        /\ done = FALSE
        /\ global_header = NoGlobalHeader
        /\ handle = "open"
        /\ pending = <<>>

SpecDamaged == InitDamaged /\ [][NextFormats]_vars

(***************************************************************************)
(* Two threads, each reading its own view of one archive.  A read is the   *)
(* two calls it makes on the archive, self.arobj._seek and                 *)
(* self.arobj._read: the other thread may run between them.  The headers   *)
(* are read while no read is under way.                                    *)
(***************************************************************************)
ConcurrentSources ==
    { [entries |-> <<Plain(1, s1), Plain(2, s2)>>, cut |-> 0] :
        s1 \in 1..MaxSize, s2 \in 1..MaxSize }

InitConcurrent ==
    \E src \in ConcurrentSources, sk \in BOOLEAN :
        /\ source = src
        /\ file = FormatBytes(src)
        /\ seekable = sk
        /\ filepos = GLOBAL_HEADER_LEN
        /\ position = GLOBAL_HEADER_LEN
        /\ next_header_offset = GLOBAL_HEADER_LEN
        /\ gnu_table = [set |-> FALSE, tab |-> <<>>]
        /\ headers = <<>>
        /\ archived_files = <<>>
        /\ views = <<>>
        /\ last = NoCall
        /\ done = FALSE
        /\ global_header = NoGlobalHeader
        /\ handle = "open"
        /\ pending = <<>>

HeadersFirst == pending = <<>> /\ ReadNextHeader

\* The sizes the threads read with.
ConcurrentSizes == 1..MaxSize

\* A thread's read of view v up to the return of _seek.  last holds the
\* step: the view's offset (old) and the cursor (val) before it.
BeginRead ==
    \E v \in 1..Len(views), given \in BOOLEAN, n \in ConcurrentSizes :
        \E p \in {read_position(Self, v, given, n)} :
            /\ v \notin DOMAIN pending
            /\ given \/ n = 1
            /\ Fields(p.self)
            /\ pending' = IF p.exc # "none" THEN pending
                          ELSE [w \in (DOMAIN pending) \cup {v} |->
                                   IF w = v THEN p.size ELSE pending[w]]
            /\ last' = [NoCall EXCEPT !.op = "read_position", !.view = v,
                                      !.given = given, !.arg = n,
                                      !.old = tell(Self, v), !.val = position,
                                      !.exc = p.exc, !.after_done = done]
            /\ UNCHANGED <<source, file, seekable, global_header, handle, done>>

\* The rest of the read of view v: _read and what follows it.
EndRead ==
    \E v \in DOMAIN pending :
        \E r \in {read_data(Self, v, pending[v])} :
            /\ Fields(r.self)
            /\ pending' = [w \in (DOMAIN pending) \ {v} |-> pending[w]]
            /\ last' = [NoCall EXCEPT !.op = "read", !.view = v, !.given = TRUE,
                                      !.arg = pending[v],
                                      !.old = tell(Self, v), !.val = position,
                                      !.exc = r.exc, !.data = r.data,
                                      !.after_done = done]
            /\ UNCHANGED <<source, file, seekable, global_header, handle, done>>

NextConcurrent == HeadersFirst \/ BeginRead \/ EndRead

SpecConcurrent == InitConcurrent /\ [][NextConcurrent]_vars

(***************************************************************************)
(* The sequential reader on archives with a member whose size field is a   *)
(* negative number that takes the next header's offset back.  Such an      *)
(* archive may be read without end: read_next_header is called while the   *)
(* list holds fewer than MaxHeaders headers.                               *)
(***************************************************************************)
\* A member whose size field is -back.
BackBy(i, back) ==
    [Plain(i, 0) EXCEPT !.kind = "negative", !.size = <<"-">> \o str(back)]

\* 60 takes the next header's offset back to the header itself, 61 and 62
\* to 2 bytes before it, 122 to the header before it.
Backs == {58, 59, 60, 61, 62, 122}

RepeatSources ==
    { [entries |-> <<BackBy(1, back)>>, cut |-> 0] : back \in Backs }
    \cup { [entries |-> <<Plain(1, size), BackBy(2, back)>>, cut |-> 0] :
             size \in 0..MaxSize, back \in Backs }

InitRepeat ==
    \E src \in RepeatSources, sk \in BOOLEAN :
        /\ source = src
        /\ file = FormatBytes(src)
        /\ seekable = sk
        /\ filepos = GLOBAL_HEADER_LEN
        /\ position = GLOBAL_HEADER_LEN
        /\ next_header_offset = GLOBAL_HEADER_LEN
        /\ gnu_table = [set |-> FALSE, tab |-> <<>>]
        /\ headers = <<>>
        /\ archived_files = <<>>
        /\ views = <<>>
        /\ last = NoCall
        /\ done = FALSE
        /\ global_header = NoGlobalHeader
        /\ handle = "open"
        /\ pending = <<>>

ReadNextHeaderAgain == Len(headers) < MaxHeaders /\ ReadNextHeader

NextRepeat == ReadNextHeaderAgain \/ ViewRead

SpecRepeat == InitRepeat /\ [][NextRepeat]_vars

(***************************************************************************)
(* Calls made one after the other, each run to its end: read_next_header,  *)
(* and read and seek on every view, in any order.                          *)
(***************************************************************************)
SerialSources ==
    { [entries |-> es, cut |-> 0] : es \in
        { <<Plain(1, MaxSize), Plain(2, 1)>>,
          <<Table(TableNames), GnuRef(4, 1, 1), Bsd(<<"x", "y">>, 3, 2)>> } }

InitSerial ==
    \E src \in SerialSources, sk \in BOOLEAN :
        /\ source = src
        /\ file = FormatBytes(src)
        /\ seekable = sk
        /\ filepos = GLOBAL_HEADER_LEN
        /\ position = GLOBAL_HEADER_LEN
        /\ next_header_offset = GLOBAL_HEADER_LEN
        /\ gnu_table = [set |-> FALSE, tab |-> <<>>]
        /\ headers = <<>>
        /\ archived_files = <<>>
        /\ views = <<>>
        /\ last = NoCall
        /\ done = FALSE
        /\ global_header = NoGlobalHeader
        /\ handle = "open"
        /\ pending = <<>>

NextSerial == ReadNextHeader \/ ViewRead \/ ViewSeek

SpecSerial == InitSerial /\ [][NextSerial]_vars

(***************************************************************************)
(* The life of an Archive: the constructor on a file object at its start,  *)
(* the calls on the open archive, close() and the calls after it.          *)
(***************************************************************************)
THIN_MAGIC == <<"!", "<", "t", "h", "i", "n", ">", NL>>

NotAnArFile ==
    <<"n", "o", "t", " ", "a", "n", " ", "a", "r", " ", "f", "i", "l", "e">>

\* What a source starts with: the magic of an archive, that of a thin
\* archive, other bytes, fewer than 8 bytes, nothing.
FirstBytes ==
    {GLOBAL_MAGIC, THIN_MAGIC, NotAnArFile, SubSeq(GLOBAL_MAGIC, 1, 7), <<>>}

OpenSources ==
    { [first |-> fb, entries |-> es, cut |-> 0] :
        fb \in {GLOBAL_MAGIC, THIN_MAGIC},
        es \in { <<>>, <<Plain(1, 1)>>, <<Plain(1, 1), Plain(2, MaxSize)>> } }
    \cup { [first |-> fb, entries |-> <<>>, cut |-> 0] : fb \in FirstBytes }

OpenBytes(src) ==
    src.first \o Concat([i \in 1..Len(src.entries) |-> EntryBytes(src.entries[i])])

\* No Archive object yet: the file object is at its start.
InitLifecycle ==
    \E src \in OpenSources, sk \in BOOLEAN :
        /\ source = src
        /\ file = OpenBytes(src)
        /\ seekable = sk
        /\ filepos = 0
        /\ position = 0
        /\ next_header_offset = 0
        /\ gnu_table = [set |-> FALSE, tab |-> <<>>]
        /\ headers = <<>>
        /\ archived_files = <<>>
        /\ views = <<>>
        /\ last = NoCall
        /\ done = FALSE
        /\ global_header = NoGlobalHeader
        /\ handle = "none"
        /\ pending = <<>>

\* Archive(fileobj=...): tried once on each source.
Open ==
    \E r \in {Archive__init__(Self)} :
        /\ handle = "none" /\ last.op = "init"
        /\ Fields(r.self)
        /\ handle' = IF r.exc = "none" THEN "open" ELSE "none"
        /\ last' = [NoCall EXCEPT !.op = "__init__", !.exc = r.exc]
        /\ UNCHANGED <<source, file, seekable, global_header, pending, done>>

WhileOpen == handle = "open" /\ (ReadNextHeader \/ ReadAllHeaders \/ ViewRead)

\* close(): self.file.close().
Close ==
    /\ handle = "open"
    /\ handle' = "closed"
    /\ last' = [NoCall EXCEPT !.op = "close", !.after_done = done]
    /\ UNCHANGED <<source, file, seekable, filepos, position, next_header_offset,
                   gnu_table, headers, archived_files, views, done,
                   global_header, pending>>

\* read_next_header and read_all_headers after close(): the first
\* _read_file_header gets no further than its _seek and _read.
ClosedReadHeaders ==
    \E op \in {"read_next_header", "read_all_headers"} :
        \E r \in {closed_cursor(Self, next_header_offset)} :
            /\ handle = "closed"
            /\ Fields(r.self)
            /\ last' = [NoCall EXCEPT !.op = op, !.exc = r.exc, !.after_done = done]
            /\ UNCHANGED <<source, file, seekable, global_header, handle,
                           pending, done>>

\* A view's read after close().
ClosedViewRead ==
    \E v \in 1..Len(views), given \in BOOLEAN, n \in ReadSizes :
        \E r \in {closed_cursor(Self, HeaderOf(Self, v).file_offset
                                         + tell(Self, v))} :
            /\ handle = "closed"
            /\ given \/ n = 0
            /\ Fields(r.self)
            /\ last' = [NoCall EXCEPT !.op = "read", !.view = v, !.given = given,
                                      !.arg = n, !.old = tell(Self, v),
                                      !.exc = r.exc, !.after_done = done]
            /\ UNCHANGED <<source, file, seekable, global_header, handle,
                           pending, done>>

NextLifecycle == Open \/ WhileOpen \/ Close \/ ClosedReadHeaders \/ ClosedViewRead

SpecLifecycle == InitLifecycle /\ [][NextLifecycle]_vars

(***************************************************************************)
(* AIXBigArchive on the archives of AIXSources.  InitAIX is the state      *)
(* AIXBigArchive.__init__ leaves when it raises nothing.                   *)
(***************************************************************************)
InitAIX ==
    \E src \in AIXSources, sk \in BOOLEAN :
        \E g \in {AIXBigGlobalHeader(SubSeq(src.bytes, 1, Min(LENGTH, Len(src.bytes))))} :
            /\ g.exc = "none"
            /\ source = src
            /\ file = src.bytes
            /\ seekable = sk
            /\ filepos = Min(LENGTH, Len(src.bytes))
            /\ position = Min(LENGTH, Len(src.bytes))
            /\ global_header = g.g
            /\ next_header_offset = g.g.first_member
            /\ gnu_table = [set |-> FALSE, tab |-> <<>>]
            /\ headers = <<>>
            /\ archived_files = <<>>
            /\ views = <<>>
            /\ last = NoCall
            /\ done = FALSE
            /\ handle = "open"
            /\ pending = <<>>

AIXReadNextHeader ==
    \E r \in {AIXBigArchive_read_next_header(Self)} :
        /\ Becomes(r.self)
        /\ last' = [NoCall EXCEPT !.op = "read_next_header", !.exc = r.exc,
                                  !.none = r.none, !.h = r.h,
                                  !.after_done = done]
        /\ done' = (done \/ (r.exc = "none" /\ r.none))

AIXReadAllHeaders ==
    \E r \in {AIXBigArchive_read_all_headers(Self)} :
        /\ Becomes(r.self)
        /\ last' = [NoCall EXCEPT !.op = "read_all_headers", !.exc = r.exc,
                                  !.none = (r.exc = "none"),
                                  !.after_done = done]
        /\ done' = (done \/ r.exc = "none")

NextAIX == AIXReadNextHeader \/ AIXReadAllHeaders \/ ViewRead

SpecAIX == InitAIX /\ [][NextAIX]_vars

(***************************************************************************)
(* _read_file_header called by the caller, at an offset of the caller's    *)
(* choice, between the calls of read_next_header; on the archives of       *)
(* FormatSources (Archive) and on those of AIXSources (AIXBigArchive).     *)
(***************************************************************************)
IsAIX == global_header # NoGlobalHeader

\* Where the i-th entry of the source starts; with i one more than the
\* number of entries, where the source ends.
RECURSIVE EntryOffset(_)
EntryOffset(i) ==
    IF i = 1 THEN GLOBAL_HEADER_LEN
    ELSE EntryOffset(i - 1) + Len(EntryBytes(source.entries[i - 1]))

\* The offsets the caller reads a header at: those of the members, the end
\* of the source and 0.
DirectOffsets ==
    IF IsAIX
    THEN {0} \cup { source.linked[i].offset : i \in 1..Len(source.linked) }
    ELSE {0} \cup { EntryOffset(i) : i \in 1..(Len(source.entries) + 1) }

InitDirect == InitFormats \/ InitAIX

ReadFileHeaderAt ==
    \E offset \in DirectOffsets :
        \E r \in {IF IsAIX THEN AIXBigArchive_read_file_header(Self, offset)
                   ELSE _read_file_header(Self, offset)} :
            /\ Becomes(r.self)
            /\ last' = [NoCall EXCEPT !.op = "_read_file_header", !.arg = offset,
                                      !.exc = r.exc, !.none = r.none, !.h = r.h,
                                      !.after_done = done]
            /\ UNCHANGED done

NextDirect ==
    \/ ~IsAIX /\ ReadNextHeader
    \/ IsAIX /\ AIXReadNextHeader
    \/ ReadFileHeaderAt

SpecDirect == InitDirect /\ [][NextDirect]_vars

(***************************************************************************)
(* Properties.  What the code is compared with is computed from source     *)
(* (the members the archive was written from) and from file (its bytes),   *)
(* not by the operators above.                                             *)
(***************************************************************************)
RoundUpEven(n) == 2 * ((n + 1) \div 2)

\* Where the i-th header of the archive lies, from the sizes of the members
\* before it.
RECURSIVE ExpectedOffset(_)
ExpectedOffset(i) ==
    IF i = 1 THEN 8
    ELSE RoundUpEven(ExpectedOffset(i - 1) + 60 + Len(source.members[i - 1].data))

\* The header and the read_offset of view v, and the n bytes of the source
\* from absolute offset start on.
ViewHeader(v) == headers[views[v].header]
BytesAt(start, n) == [j \in 1..n |-> file[start + j]]

\* The source holds all of the member of header h.
Contained(h) == h.size >= 0 /\ h.file_offset + h.size <= Len(file)

\* C1: in an archive of N normal members the i-th header read_next_header
\* records lies at offset_1 = 8, offset_i = pad2(offset_(i-1) + 60 +
\* size_(i-1)), and the offset the next call reads at is the next of them;
\* pad2 rounds up to the next even number.
C1_HeaderOffsets ==
    /\ Len(headers) <= Len(source.members)
    /\ \A i \in 1..Len(headers) :
           /\ headers[i].type = HEADER_NORMAL
           /\ headers[i].offset = ExpectedOffset(i)
           /\ headers[i].size = Len(source.members[i].data)
    /\ next_header_offset = ExpectedOffset(Len(headers) + 1)

\* Two headers have been read, the first of a member of odd size.
C1_Witness ==
    /\ last.op = "read_next_header" /\ last.exc = "none" /\ ~last.none
    /\ Len(headers) = 2
    /\ headers[1].size % 2 = 1
    /\ headers[2].offset = 70

\* C2: a read(n) with n >= 0, or read(), of a view whose member the source
\* holds in full and whose bytes the cursor can still be set to (any position
\* of a seekable source; a position not behind the cursor of a stream)
\* returns the min(n, size - read_offset) bytes at data_offset + read_offset
\* (n is the member's size for a call without argument) and moves tell() on
\* by as many; a read() of a fresh view returns the content the member was
\* written with, and tell() is then its size.
C2_ReadReturnsMemberBytes ==
    [][ (/\ last'.op = "read"
         /\ (last'.given => last'.arg >= 0)
         /\ Contained(ViewHeader(last'.view)))
        => LET v == last'.view
               h == ViewHeader(v)
               before == views[v].last_offset
               start == h.file_offset + before
               left == h.size - before
               n == Min(IF last'.given THEN last'.arg ELSE h.size, left)
           IN  /\ (last'.exc = "none")
                     <=> (IF seekable THEN start >= 0 ELSE position <= start)
               /\ last'.exc = "none" =>
                     /\ Len(last'.data) = n
                     /\ last'.data = BytesAt(start, n)
                     /\ views'[v].last_offset = before + n
               /\ (last'.exc = "none" /\ before = 0 /\ ~last'.given) =>
                     /\ last'.data = source.members[views[v].header].data
                     /\ views'[v].last_offset = h.size ]_vars

\* read() of a fresh view has returned the two bytes of its member.
C2_Witness ==
    /\ last.op = "read" /\ ~last.given /\ last.old = 0 /\ last.exc = "none"
    /\ Len(last.data) = 2
    /\ views[last.view].last_offset = 2

\* C3 (as claimed): the read_offset of every view stays within [0, size],
\* whatever read and seek calls were made.
C3_ReadOffsetInRange ==
    \A v \in 1..Len(views) :
        views[v].last_offset >= 0 /\ views[v].last_offset <= ViewHeader(v).size

\* The offset seek(offset, whence) asks for, from the read_offset before the
\* call and the member's size.
Resolved(offset, whence, old, size) ==
    IF whence = 0 THEN offset ELSE IF whence = 1 THEN old + offset ELSE size + offset

\* The content the member of view v was written with, from position pos on.
ContentFrom(v, pos) ==
    LET data == source.members[views[v].header].data
    IN  [j \in 1..(Len(data) - pos) |-> data[pos + j]]

\* C4: after a seek(offset, whence) that returned, read_offset is offset for
\* whence 0, the read_offset before the call + offset for whence 1 and size +
\* offset for whence 2; a read() that follows (on a source that holds the
\* member and whose cursor can be set there) returns the member's content
\* from that position to the end.
C4_SeekSetsOffset ==
    (last.op = "seek" /\ last.exc = "none") =>
        LET v == last.view
            h == ViewHeader(v)
            pos == views[v].last_offset
        IN  /\ last.whence \in {0, 1, 2}
            /\ pos = Resolved(last.arg, last.whence, last.old, h.size)
            /\ (Contained(h) /\ (seekable \/ position <= h.file_offset + pos)) =>
                   \A r \in {read(Self, v, FALSE, 0)} :
                       /\ r.exc = "none"
                       /\ r.data = ContentFrom(v, pos)
                       /\ tell(r.self, v) = h.size

\* A seek from the end has returned, and one relative to a position that is
\* not the start.
C4_Witness ==
    /\ last.op = "seek" /\ last.exc = "none"
    /\ last.whence = 2 /\ last.arg = -1
    /\ views[last.view].last_offset = 1
    /\ seekable
    /\ Contained(ViewHeader(last.view))

\* C5: a seek whose whence is not 0, 1 or 2, or whose resolved target is
\* negative or greater than the member's size, raises ArchiveAccessError and
\* leaves read_offset as it was.
C5_SeekRejected ==
    last.op = "seek" =>
        LET v == last.view
            size == ViewHeader(v).size
            target == Resolved(last.arg, last.whence, last.old, size)
        IN  (last.whence \notin {0, 1, 2} \/ target < 0 \/ target > size) =>
                /\ last.exc = "ArchiveAccessError"
                /\ views[v].last_offset = last.old

\* A seek past the end of the member was refused.
C5_Witness ==
    /\ last.op = "seek" /\ last.exc = "ArchiveAccessError"
    /\ last.whence = 2 /\ last.arg = 1
    /\ views[last.view].last_offset = last.old

\* C6: a seek that returns, returns the resulting read_offset.
C6_SeekReturnsOffset ==
    (last.op = "seek" /\ last.exc = "none") =>
        ~last.none /\ last.val = views[last.view].last_offset

\* The absolute offset a read of view v sets the cursor to, and the offset
\* right after the member's last byte.
ReadTarget(v) == ViewHeader(v).file_offset + views[v].last_offset
EndOf(v) == ViewHeader(v).file_offset + ViewHeader(v).size

\* C7: on a source that is not seekable no call makes the cursor's position
\* smaller, and a call that has to set the cursor to an offset below its
\* position (a read of a view, the reading of the next header) raises
\* ArchiveAccessError and leaves the cursor where it was.
C7_StreamOnlyForward ==
    [][ ~seekable =>
          /\ position' >= position
          /\ filepos' >= filepos
          /\ (last'.op = "read" /\ ReadTarget(last'.view) < position) =>
                 (last'.exc = "ArchiveAccessError" /\ position' = position)
          /\ (last'.op \in {"read_next_header", "read_all_headers"}
                /\ next_header_offset < position) =>
                 (last'.exc = "ArchiveAccessError" /\ position' = position) ]_vars

\* A read of a stream was refused because its bytes lie behind the cursor.
C7_Witness ==
    /\ ~seekable
    /\ last.op = "read" /\ last.exc = "ArchiveAccessError"
    /\ ReadTarget(last.view) < position
    /\ Contained(ViewHeader(last.view))

\* C8 as stated: on a source that is not seekable, once a member A of
\* size > 0 has been read fully (the cursor is at or past its end), every read
\* of A's view, rewound or not, raises ArchiveAccessError, and a read of a
\* member B that lies where the cursor is or further on returns B's content.
C8_RereadRaises ==
    [][ (~seekable /\ last'.op = "read" /\ (last'.given => last'.arg >= 0)) =>
          \A a \in 1..Len(views) :
              (ViewHeader(a).size > 0 /\ position >= EndOf(a)) =>
                  /\ last'.view = a => last'.exc = "ArchiveAccessError"
                  /\ (last'.view # a /\ Contained(ViewHeader(last'.view))
                        /\ position <= ReadTarget(last'.view)) =>
                         /\ last'.exc = "none"
                         /\ last'.data = BytesAt(ReadTarget(last'.view), Len(last'.data)) ]_vars

\* C8 amended: on a source that is not seekable, once a member A of size > 0
\* has been read fully, a read of A's view raises ArchiveAccessError if A was
\* rewound or the cursor has moved past A's end; with the cursor still at A's
\* end and read_offset = size it returns no bytes and raises nothing; a read
\* of a member B that lies where the cursor is or further on returns B's
\* content from its read_offset on.
C8_RewindRaises ==
    [][ (~seekable /\ last'.op = "read" /\ (last'.given => last'.arg >= 0)) =>
          \A a \in 1..Len(views) :
              (ViewHeader(a).size > 0 /\ position >= EndOf(a)) =>
                  /\ (last'.view = a /\ ReadTarget(a) < position) =>
                         (last'.exc = "ArchiveAccessError" /\ position' = position)
                  /\ (last'.view = a /\ ReadTarget(a) = position) =>
                         /\ views[a].last_offset = ViewHeader(a).size
                         /\ last'.exc = "none"
                         /\ last'.data = <<>>
                         /\ views'[a].last_offset = views[a].last_offset
                  /\ (last'.view # a /\ Contained(ViewHeader(last'.view))
                        /\ position <= ReadTarget(last'.view)) =>
                         LET b == last'.view
                             n == Min(IF last'.given THEN last'.arg
                                      ELSE ViewHeader(b).size,
                                      ViewHeader(b).size - views[b].last_offset)
                         IN  /\ last'.exc = "none"
                             /\ last'.data = BytesAt(ReadTarget(b), n)
                             /\ (views[b].last_offset = 0 /\ ~last'.given) =>
                                    last'.data = source.members[views[b].header].data ]_vars

\* Member 1, of size > 0, was read fully, and a read() of member 2 has then
\* returned its content, which is not empty.
C8_Witness ==
    /\ ~seekable
    /\ Len(views) = 2
    /\ ViewHeader(1).size > 0
    /\ views[1].last_offset = ViewHeader(1).size
    /\ last.op = "read" /\ last.view = 2 /\ last.exc = "none" /\ ~last.given
    /\ last.data # <<>>
    /\ last.data = source.members[2].data

\* The largest index of a header that carries the name.
LastWith(name) ==
    CHOOSE i \in 1..Len(headers) :
        /\ headers[i].name = name
        /\ \A k \in (i + 1)..Len(headers) : headers[k].name # name

\* C9: the header list holds the headers decoded so far in the order of the
\* archive, repeated names included; the index holds exactly the names of
\* these headers and maps each to the view of the LAST header with that name.
C9_IndexLastWins ==
    /\ Len(headers) <= Len(source.members)
    /\ Len(views) = Len(headers)
    /\ \A i \in 1..Len(headers) :
           /\ headers[i].name = source.members[i].name
           /\ headers[i].size = Len(source.members[i].data)
           /\ views[i].header = i
    /\ DOMAIN archived_files = { headers[i].name : i \in 1..Len(headers) }
    /\ \A name \in DOMAIN archived_files :
           views[archived_files[name]].header = LastWith(name)

\* Two headers of one name are in the list and the index holds the second.
C9_Witness ==
    /\ Len(headers) = 2
    /\ headers[1].name = headers[2].name
    /\ headers[1].offset # headers[2].offset
    /\ DOMAIN archived_files = {headers[1].name}
    /\ views[archived_files[headers[2].name]].header = 2

\* C10: once read_next_header has returned None (or read_all_headers has
\* returned), a read_next_header returns None again and a read_all_headers
\* returns, and no call changes the header list, the name index or the next
\* header's offset.
C10_DoneIsFinal ==
    [][ done =>
          /\ UNCHANGED <<headers, archived_files, next_header_offset>>
          /\ done'
          /\ last'.op = "read_next_header" => (last'.exc = "none" /\ last'.none)
          /\ last'.op = "read_all_headers" => last'.exc = "none" ]_vars

\* read_next_header was called after the end had been reported and returned
\* None, with two headers in the list.
C10_Witness ==
    /\ done
    /\ last.after_done
    /\ last.op = "read_next_header" /\ last.exc = "none" /\ last.none
    /\ Len(headers) = 2

(***************************************************************************)
(* Properties of SpecFormats.  What is expected is computed from           *)
(* source.entries, the entries the archive was written from.               *)
(***************************************************************************)
\* How many bytes the source holds from the next header's offset on.
Available ==
    IF next_header_offset >= Len(file) THEN 0 ELSE Len(file) - next_header_offset

\* C11: a read_next_header whose cursor can be set to the next header's
\* offset returns None, raises nothing and leaves the header list as it is
\* when the source holds no byte from there on, and raises
\* ArchiveFormatError when it holds 1 to 59 bytes.
C11_EndOrShortHeader ==
    [][ (/\ last'.op = "read_next_header"
         /\ (seekable \/ position <= next_header_offset)) =>
          /\ Available = 0 =>
                 (last'.exc = "none" /\ last'.none /\ headers' = headers)
          /\ Available \in 1..(HEADER_LEN - 1) =>
                 (last'.exc = "ArchiveFormatError" /\ headers' = headers) ]_vars

\* A header of which the source holds 1 to 59 bytes was refused.
C11_Witness ==
    /\ last.op = "read_next_header" /\ last.exc = "ArchiveFormatError"
    /\ Len(headers) = 1
    /\ Available \in {1, HEADER_LEN - 1}

\* Where the j-th name of a name table starts in the table's content.
RECURSIVE NameOffset(_, _)
NameOffset(names, j) ==
    IF j = 1 THEN 0 ELSE NameOffset(names, j - 1) + Len(names[j - 1]) + 2

\* C12: once the name table (the t-th member) has been read, the table of
\* long names maps the offset at which each of its names starts to that name
\* less its one trailing slash, and every header "/k" read after it, with k
\* the start of a name, carries that name.
C12_GnuNames ==
    \A t \in 1..Len(source.entries) :
        (source.entries[t].kind = "table" /\ Len(headers) >= t) =>
            LET names == source.entries[t].names
            IN  /\ headers[t].type = HEADER_GNU_TABLE
                /\ gnu_table.set
                /\ \A j \in 1..Len(names) :
                       /\ NameOffset(names, j) \in DOMAIN gnu_table.tab
                       /\ gnu_table.tab[NameOffset(names, j)] = names[j]
                /\ \A i \in (t + 1)..Len(headers) :
                       source.entries[i].kind = "gnu" =>
                           /\ headers[i].type = HEADER_GNU
                           /\ \A j \in 1..Len(names) :
                                  NameOffset(names, j) = source.entries[i].k =>
                                      headers[i].name = names[j]

\* The header "/4" was read and carries the second name of the table, which
\* ends with a slash of its own.
C12_Witness ==
    /\ last.op = "read_next_header" /\ last.exc = "none" /\ ~last.none
    /\ last.h.type = HEADER_GNU
    /\ last.h.proxy_name = <<"/", "4">>
    /\ last.h.name = <<"c", "/">>
    /\ gnu_table.set /\ gnu_table.tab[0] = <<"a", "b">>

\* The i-th member of the source is a "/k" header and k is the start of a
\* name of a name table that precedes it.
GoodReference(i) ==
    \E t \in 1..(i - 1) :
        /\ source.entries[t].kind = "table"
        /\ \E j \in 1..Len(source.entries[t].names) :
               NameOffset(source.entries[t].names, j) = source.entries[i].k

\* C13: a read_next_header that reads a header "/k" whose k is not the start
\* of a name of the name table (no name table was read, or k lies inside a
\* name, at the end of the table or past it) raises ArchiveFormatError.
C13_BadReferenceRefused ==
    [][ (/\ last'.op = "read_next_header"
         /\ (seekable \/ position <= next_header_offset)
         /\ Len(headers) < Len(source.entries)
         /\ source.entries[Len(headers) + 1].kind = "gnu"
         /\ ~GoodReference(Len(headers) + 1))
        => last'.exc = "ArchiveFormatError" ]_vars

\* C14: the header read from a member with the name field "#1/L" and the
\* size field D has as its name the L bytes that follow the 60 bytes of the
\* header, size D - L and data offset header offset + 60 + L; the header after
\* it is expected at header offset + 60 + D rounded up to an even number.
C14_BsdName ==
    \A i \in 1..Len(headers) :
        source.entries[i].kind = "bsd" =>
            LET L == Len(source.entries[i].longname)
                D == source.entries[i].declared
                h == headers[i]
                after == RoundUpEven(h.offset + 60 + D)
            IN  /\ h.type = HEADER_BSD
                /\ h.name = source.entries[i].longname
                /\ h.name = BytesAt(h.offset + 60, L)
                /\ h.size = D - L
                /\ h.file_offset = h.offset + 60 + L
                /\ IF i = Len(headers) THEN next_header_offset = after
                   ELSE headers[i + 1].offset = after

\* A header with a name of one byte and two bytes of content was read, and
\* the header after it.
C14_Witness ==
    /\ Len(headers) = 2
    /\ headers[1].type = HEADER_BSD
    /\ headers[1].name = <<"x">> /\ headers[1].size = 2
    /\ headers[1].file_offset = 69
    /\ headers[2].offset = 72
    /\ headers[2].name = <<"x", "y">> /\ headers[2].size = 0

\* The number of bytes of the name that follows the i-th header.
InlineNameBytes(i) ==
    IF source.entries[i].kind = "bsd" THEN Len(source.entries[i].longname) ELSE 0

\* C15: every header in the header list has size >= 0 and data offset =
\* header offset + 60 + the bytes of its inline name.
C15_SizeNotNegative ==
    \A i \in 1..Len(headers) :
        /\ headers[i].size >= 0
        /\ headers[i].file_offset = headers[i].offset + 60 + InlineNameBytes(i)

KindType(kind) ==
    CASE kind = "table" -> 3
      [] kind = "symbols" -> 4
      [] kind = "bsd" -> 1
      [] kind = "gnu" -> 2
      [] OTHER -> 5

\* The indices of the headers of members with data.
DataHeaders == { i \in 1..Len(headers) : headers[i].type \in {1, 2, 5} }

\* C18: the name index holds exactly the names of the headers of members
\* with data (normal, BSD extended name, GNU extended name) that are in the
\* header list, each mapped to a view of a header of the list with that
\* name; the headers of name tables and symbol tables are in the list, at
\* their place, and not in the index.
C18_IndexHoldsDataMembers ==
    /\ Len(headers) <= Len(source.entries)
    /\ \A i \in 1..Len(headers) : headers[i].type = KindType(source.entries[i].kind)
    /\ DOMAIN archived_files = { headers[i].name : i \in DataHeaders }
    /\ \A name \in DOMAIN archived_files :
           /\ archived_files[name] \in 1..Len(views)
           /\ views[archived_files[name]].header \in DataHeaders
           /\ headers[views[archived_files[name]].header].name = name
    /\ \A v \in 1..Len(views) : views[v].header \in DataHeaders
    /\ \A i \in 1..Len(headers) :
           i \notin DataHeaders => headers[i].name \notin DOMAIN archived_files

\* A symbol table, a name table and two members were read; the index holds
\* the two members.
C18_Witness ==
    /\ Len(headers) = 4
    /\ headers[1].type = HEADER_GNU_SYMBOLS
    /\ headers[2].type = HEADER_GNU_TABLE
    /\ DOMAIN archived_files = { <<"c", "/">>, <<"a", "b">> }
    /\ views[archived_files[<<"a", "b">>]].header = 4

\* C19: a next() that returns has appended to the header list the headers up
\* to the next member with data, in the order of the archive, none of those
\* before it a member with data, and returns the view of that member; one
\* that finds no further header raises StopIteration; after that every
\* next() raises StopIteration and appends nothing.
C19_Iteration ==
    [][ last'.op = "next" =>
          LET n == Len(headers)
              n2 == Len(headers')
          IN  /\ n2 >= n /\ SubSeq(headers', 1, n) = headers
              /\ \A i \in (n + 1)..n2 :
                     headers'[i].type = KindType(source.entries[i].kind)
              /\ last'.exc = "none" =>
                     /\ n2 > n
                     /\ headers'[n2].type \in {1, 2, 5}
                     /\ headers'[n2] = last'.h
                     /\ \A i \in (n + 1)..(n2 - 1) : headers'[i].type \in {3, 4}
                     /\ last'.view \in 1..Len(views')
                     /\ views'[last'.view].header = n2
                     /\ views'[last'.view].last_offset = 0
              /\ last'.exc = "StopIteration" =>
                     /\ \A i \in (n + 1)..n2 : headers'[i].type \in {3, 4}
                     /\ done'
              /\ done => (last'.exc = "StopIteration" /\ n2 = n) ]_vars

\* The first next() has skipped a symbol table and a name table and returned
\* the view of the member after them.
C19_Witness ==
    /\ last.op = "next" /\ last.exc = "none" /\ last.old = 0
    /\ Len(headers) = 3
    /\ headers[1].type = HEADER_GNU_SYMBOLS /\ headers[2].type = HEADER_GNU_TABLE
    /\ views[last.view].header = 3
    /\ headers[3].name = <<"c", "/">>

\* C20: the header of a member whose uid and gid fields are blank is
\* returned, with no uid and no gid (-1 stands for None).
C20_BlankIdsDecode ==
    [][ (/\ last'.op = "read_next_header"
         /\ (seekable \/ position <= next_header_offset)
         /\ Len(headers) < Len(source.entries)
         /\ source.entries[Len(headers) + 1].kind = "windows")
        => /\ last'.exc = "none" /\ ~last'.none
           /\ last'.h.uid = -1 /\ last'.h.gid = -1 ]_vars

(***************************************************************************)
(* Properties of SpecDamaged.                                              *)
(***************************************************************************)
\* The entry a read_next_header reads next: the one after those in the list.
NextEntry == source.entries[Len(headers) + 1]

\* read_next_header is called where its cursor can be set to the next
\* header's offset, and an entry of the source is left to read.
ReadsEntry ==
    /\ last'.op = "read_next_header"
    /\ (seekable \/ position <= next_header_offset)
    /\ Len(headers) < Len(source.entries)

\* C21: a read_next_header that reads a header with a numeric field that is
\* no number (mtime, uid, gid, mode or size, the length after "#1/", the
\* offset after "/") raises ArchiveFormatError and no other exception.
C21_NonNumericIsFormatError ==
    [][ (ReadsEntry /\ NextEntry.kind = "badnum")
        => last'.exc = "ArchiveFormatError" ]_vars

\* The entry after those in the list cannot be decoded: a field is no
\* number, the magic is wrong, the name table is short, the reference is to
\* no name of the table, or the source holds 1 to 59 bytes of the header.
Undecodable ==
    \/ Available \in 1..(HEADER_LEN - 1)
    \/ /\ Len(headers) < Len(source.entries)
       /\ \/ NextEntry.kind \in {"badnum", "badmagic", "shorttable"}
          \/ NextEntry.kind = "gnu" /\ ~GoodReference(Len(headers) + 1)

\* C22: a read_next_header that raises ArchiveFormatError leaves the header
\* list, the name index and the views exactly as they were; a
\* read_all_headers (or an iteration) that raises it leaves the list it had,
\* extended by the headers decoded before the failing one, the index holding
\* the members with data among them, and the header that failed is not in
\* the list.
C22_FailureKeepsLists ==
    [][ last'.exc = "ArchiveFormatError" =>
          /\ last'.op = "read_next_header" =>
                 /\ headers' = headers
                 /\ archived_files' = archived_files
                 /\ views' = views
          /\ last'.op \in {"read_all_headers", "next"} =>
                 /\ Len(headers') >= Len(headers)
                 /\ SubSeq(headers', 1, Len(headers)) = headers
                 /\ \A i \in 1..Len(headers') :
                        headers'[i].type = KindType(source.entries[i].kind)
                 /\ DOMAIN archived_files' =
                        { headers'[i].name : i \in DataHeaders' }
                 /\ Undecodable' ]_vars

\* read_all_headers raised ArchiveFormatError at a name table shorter than
\* its size field says; the member decoded before it is in the list.
C22_Witness ==
    /\ last.op = "read_all_headers" /\ last.exc = "ArchiveFormatError"
    /\ Len(headers) = 1 /\ headers[1].name = <<"f", "2">>
    /\ DOMAIN archived_files = { <<"f", "2">> }
    /\ NextEntry.kind = "shorttable"

\* n, or what is left of size from offset old on when that is less.
ClampedTo(size, old, n) == IF old + n > size THEN size - old ELSE n

\* The size a read of view v with the arguments given asks the source for.
Asked(v, given, n) ==
    ClampedTo(ViewHeader(v).size, views[v].last_offset,
              IF given THEN n ELSE ViewHeader(v).size)

\* How many bytes the source holds from the offset on.
Held(offset) == IF offset >= Len(file) THEN 0 ELSE Len(file) - offset

\* C23: a read that asks the source for more bytes than it holds from the
\* view's position on (the source ends before the member's declared size)
\* raises ArchiveAccessError and leaves the view's read_offset as it was.
C23_TruncatedRaises ==
    [][ (/\ last'.op = "read"
         /\ (seekable \/ position <= ReadTarget(last'.view))
         /\ Asked(last'.view, last'.given, last'.arg) >= 0
         /\ Held(ReadTarget(last'.view)) < Asked(last'.view, last'.given, last'.arg))
        => /\ last'.exc = "ArchiveAccessError"
           /\ views'[last'.view].last_offset = views[last'.view].last_offset ]_vars

\* A member of declared size MaxSize of whose content the source holds one
\* byte less was read whole: the read raised and the offset is still 0.
C23_Witness ==
    /\ last.op = "read" /\ ~last.given /\ last.exc = "ArchiveAccessError"
    /\ source.cut = 1 /\ Len(source.entries) = 1
    /\ ViewHeader(last.view).size = MaxSize
    /\ Held(ViewHeader(last.view).file_offset) = MaxSize - 1
    /\ views[last.view].last_offset = 0

\* C28: the table of long names is built at most once: once a name table
\* has been read, no later call changes the table, whatever members follow,
\* a second name table included.
C28_TableBuiltOnce ==
    [][ gnu_table.set => gnu_table' = gnu_table ]_vars

\* A read_next_header on a stream has to move the cursor forward to the
\* next header's offset, and the source ends before that offset.
SeekExhausts ==
    /\ last'.op = "read_next_header"
    /\ ~seekable
    /\ position <= next_header_offset
    /\ Len(file) < next_header_offset

\* C29: a forward seek on a stream that exhausts the input before it reaches
\* its target ends without an error, with the position at the end of the
\* input, and the archive records the end of the input: its state differs
\* from the one before the call in more than the position.
C29_ExhaustionRecorded ==
    [][ SeekExhausts =>
          /\ last'.exc = "none"
          /\ position' = Len(file)
          /\ <<next_header_offset, gnu_table, headers, archived_files, views>>'
                 # <<next_header_offset, gnu_table, headers, archived_files, views>>
      ]_vars

(***************************************************************************)
(* Properties of SpecConcurrent.                                           *)
(***************************************************************************)
\* The step ends the read of view v.
Ends(v) == v \in DOMAIN pending /\ last'.op = "read" /\ last'.view = v

\* C24: the views read through the one cursor of their archive, in two
\* steps.  A read that returns returns the bytes at the cursor as it stands
\* when its second step runs, wherever another view's read has put it, and
\* moves the cursor past them; they are the bytes of its own member at its
\* own read_offset when no step of another read ran between its two steps.
C24_SharedCursor ==
    [][ \A v \in 1..Len(views) :
          (Ends(v) /\ last'.exc = "none") =>
             /\ last'.data = BytesAt(position, pending[v])
             /\ position' = position + pending[v]
             /\ views'[v].last_offset = views[v].last_offset + pending[v]
             /\ (last.op = "read_position" /\ last.view = v) =>
                    last'.data = BytesAt(ReadTarget(v), pending[v]) ]_vars

\* A read of the first member returned bytes that are not those of the
\* first member at the view's read_offset: the other view's read had
\* positioned the cursor in between.
C24_Witness ==
    /\ last.op = "read" /\ last.exc = "none" /\ last.view = 1
    /\ Len(last.data) > 0
    /\ last.data # BytesAt(ViewHeader(1).file_offset + last.old, Len(last.data))
    /\ last.data = BytesAt(ViewHeader(2).file_offset, Len(last.data))

(***************************************************************************)
(* Properties of SpecLifecycle.                                            *)
(***************************************************************************)
\* C25: after close() every read_next_header, every read_all_headers and
\* every read of a view raises ArchiveAccessError.
C25_ClosedRejected ==
    (handle = "closed" /\ last.op \in {"read_next_header", "read_all_headers", "read"})
        => last.exc = "ArchiveAccessError"

\* C26: the constructor returns when the first 8 bytes of the source are
\* "!<arch>\n" or "!<thin>\n" and raises ArchiveFormatError otherwise, a
\* source of fewer than 8 bytes included; when it returns the next header's
\* offset is 8 and the header list and the name index are empty.
C26_OpenChecksMagic ==
    last.op = "__init__" =>
        /\ last.exc = (IF SubSeq(file, 1, Min(8, Len(file))) \in {GLOBAL_MAGIC, THIN_MAGIC}
                       THEN "none" ELSE "ArchiveFormatError")
        /\ last.exc = "none" =>
               /\ handle = "open"
               /\ next_header_offset = 8
               /\ headers = <<>>
               /\ archived_files = <<>>

(***************************************************************************)
(* Properties of SpecDirect.                                               *)
(***************************************************************************)
\* C27: a header read moves the next header's offset only when it was read
\* at that offset: in the sequential reader to the header's data offset
\* plus its size, rounded up to an even number (in the AIX reader to 0 or to
\* the header's next_member).  A header the caller reads at another offset
\* leaves the next header's offset as it was, and no header the caller reads
\* changes the header list, the name index or the views; a read that returns
\* None or raises leaves the next header's offset as it was.
C27_AdvanceOnlyWhenExpected ==
    [][ last'.op \in {"_read_file_header", "read_next_header"} =>
          /\ last'.op = "_read_file_header" =>
                 /\ headers' = headers
                 /\ archived_files' = archived_files
                 /\ views' = views
                 /\ last'.arg # next_header_offset =>
                        next_header_offset' = next_header_offset
          /\ (last'.exc # "none" \/ last'.none) =>
                 next_header_offset' = next_header_offset
          /\ (/\ last'.exc = "none" /\ ~last'.none
              /\ last'.op = "_read_file_header" => last'.arg = next_header_offset) =>
                 next_header_offset' =
                     IF IsAIX
                     THEN (IF next_header_offset = global_header.last_member
                           THEN 0 ELSE last'.h.next_member)
                     ELSE RoundUpEven(last'.h.file_offset + last'.h.size) ]_vars

\* After read_next_header had read the first of three members, the caller
\* read the third member's header: the next header's offset is still that
\* of the second member, and the list holds the first header only.
C27_Witness ==
    /\ ~IsAIX
    /\ last.op = "_read_file_header" /\ last.exc = "none" /\ ~last.none
    /\ Len(source.entries) = 3
    /\ last.arg = EntryOffset(3) /\ last.h.offset = EntryOffset(3)
    /\ next_header_offset = EntryOffset(2)
    /\ Len(headers) = 1

(***************************************************************************)
(* Properties of SpecRepeat.                                               *)
(***************************************************************************)
\* C30: every read_next_header that returns a header makes the next
\* header's offset larger by 60 at least and leaves it even, and no two
\* headers of the list have the same offset.
C30_OffsetGrows ==
    [][ (last'.op = "read_next_header" /\ last'.exc = "none" /\ ~last'.none) =>
          /\ next_header_offset' >= next_header_offset + HEADER_LEN
          /\ next_header_offset' % 2 = 0
          /\ \A i, j \in 1..Len(headers') :
                 i # j => headers'[i].offset # headers'[j].offset ]_vars

(***************************************************************************)
(* Properties of SpecSerial.                                               *)
(***************************************************************************)
\* The Archive object with its cursor at p, and as the constructor left it.
Elsewhere(p) == [Self EXCEPT !.position = p, !.filepos = p]

Fresh ==
    [filepos |-> GLOBAL_HEADER_LEN, position |-> GLOBAL_HEADER_LEN,
     next_header_offset |-> GLOBAL_HEADER_LEN,
     gnu_table |-> [set |-> FALSE, tab |-> <<>>],
     headers |-> <<>>, archived_files |-> <<>>, views |-> <<>>]

\* Where the calls may have left the cursor: the start and the end of the
\* source, and the start and the end of every member read so far.
CursorPositions ==
    {0, GLOBAL_HEADER_LEN, Len(file)}
        \cup { headers[i].offset : i \in 1..Len(headers) }
        \cup { headers[i].file_offset : i \in 1..Len(headers) }
        \cup { headers[i].file_offset + headers[i].size : i \in 1..Len(headers) }

\* What a read of view v gives: the exception, the bytes, the view's offset.
ReadResult(r, v) == <<r.exc, r.data, r.self.views[v].last_offset>>

\* What a read_next_header gives, the cursor apart.
HeaderResult(r) ==
    <<r.exc, r.none, r.h, r.self.next_header_offset, r.self.headers,
      r.self.archived_files, r.self.views, r.self.gnu_table>>

\* C31: on a seekable source, with every call run to its end before the
\* next one starts, nothing passes from one call to another through the
\* cursor.  In every state the calls reach, wherever they have left the
\* cursor, a read of a view gives the same exception, the same bytes and
\* the same read_offset, and read_next_header gives the same header and the
\* same lists; the headers in the list are those read_next_header gives
\* when it alone is called; no read or seek on a view, and no
\* read_next_header, changes the read_offset of another view.
C31_NoCrossTalk ==
    seekable =>
        /\ \A v \in 1..Len(views), given \in BOOLEAN, n \in ReadSizes :
               (given \/ n = 0) =>
                   /\ \A p \in CursorPositions :
                          ReadResult(read(Elsewhere(p), v, given, n), v)
                              = ReadResult(read(Self, v, given, n), v)
                   /\ \A w \in 1..Len(views) :
                          w # v => read(Self, v, given, n).self.views[w] = views[w]
        /\ \A v \in 1..Len(views), offset \in SeekOffsets, whence \in Whences :
               \A w \in 1..Len(views) :
                   w # v => seek(Self, v, offset, whence).self.views[w] = views[w]
        /\ \A p \in CursorPositions :
               HeaderResult(read_next_header(Elsewhere(p)))
                   = HeaderResult(read_next_header(Self))
        /\ SubSeq(read_next_header(Self).self.views, 1, Len(views)) = views
        /\ headers = SubSeq(read_all_headers(Fresh).self.headers, 1, Len(headers))

\* On a seekable source the first member was read whole, from its start,
\* after the second header had been read and the second view read from:
\* the bytes are those the first member was written with.
C31_Witness ==
    /\ seekable
    /\ Len(views) = 2 /\ views[2].last_offset > 0
    /\ last.op = "read" /\ last.view = 1 /\ last.old = 0 /\ last.exc = "none"
    /\ source.entries[1].kind = "normal"
    /\ last.data = source.entries[1].body
    /\ Len(last.data) = MaxSize
    /\ position # ViewHeader(2).file_offset + views[2].last_offset

============================================================================
